---- MODULE Spec2Model ----
(***************************************************************************)
(* DocuMancer: the conversion workflow of the Electron application.        *)
(*                                                                         *)
(* Event-driven application (Spec):                                        *)
(*   renderer  (src/unnamed/part_002)        AppState, startConversion,    *)
(*                                           the IPC listeners             *)
(*   main      (src/backend/requirements.txt, lines 49-595)                *)
(*                                           convertFiles, cancelConversion*)
(*   converter (backend/converter.py, a child process: not in src/)        *)
(* The two IPC directions are FIFO queues; a line of the child process and *)
(* the 'data' handler that reads it are one step, and so are the end of    *)
(* the process and its 'close' handler.                                    *)
(*                                                                         *)
(* Request/response shell (SpecShell):                                     *)
(*   src/frontend/electron-main.js           ipcMain.handle('convert-files')*)
(***************************************************************************)
EXTENDS Integers, Sequences, FiniteSets, TLC

\* ------------------------------------------------------------------ bounds
MaxFiles == 2

MaxJobs == 2

MaxPending == 1

MaxEdits == 2

MaxInvocations == 2

MaxBackends == 2

\* calls of convert in the shell's renderer
MaxCalls == 1

\* 'Converted:' lines the converter writes in the text-level model of stdout
MaxLines == 3

\* the context bridge: wrappers created, calls of send/invoke, messages delivered
MaxWrappers == 2

MaxOut == 3

MaxMsgs == 2

\* calls of api.removeAllListeners
MaxRemovals == 2

\* the largest numeric suffix of an output name
MaxSuffix == 2

\* the file lists handed to ipcMain.handle('convert-files')
ShellInputs == {<<>>, <<<<"x", "a">>>>}

Jobs == 1..MaxJobs

\* the selections a file dialog or a drop hands to addFiles; a path is its
\* sequence of segments: x/a is <<"x", "a">>
Selections == {<<<<"x", "a">>>>, <<<<"x", "a">>, <<"x", "b">>>>, <<<<"y", "a">>>>}

\* --------------------------------------------------------------- variables
VARIABLES
    \* renderer: AppState (part_002:7-16)
    files,              \* AppState.files: sequence of [path, status]
    convertedFiles,     \* AppState.convertedFiles: inputs of 'file-converted'
    isConverting,       \* AppState.isConverting
    \* IPC
    toMain,             \* ipcRenderer.send -> ipcMain.on, in order
    toRenderer,         \* webContents.send -> ipcRenderer.on, in order
    \* main process
    converterProcess,   \* the module variable: 0 is null, else a job id
    procs,              \* the child processes, one per convert request
    nJobs,              \* convert requests handled by convertFiles so far
    mainWindow,         \* the module variable: TRUE is the window, FALSE is null
    quitting,           \* 'before-quit' has been handled
    nullUse,            \* a handler has called mainWindow.webContents on null
    \* history
    rJob,               \* startConversion calls that sent a request
    nEdits,             \* addFiles, removeFile and clearFiles calls so far
    rFiles,             \* the paths the last startConversion sent
    outcome,            \* per request: how convertFiles left
    sent,               \* per request and channel: how many events were sent
    lastCancel,         \* whether the last cancelConversion call returned true
    \* request/response shell (electron-main.js)
    backendProcess,     \* 0 is undefined/null, else an index of backends
    backends,           \* the backend processes spawned: [st, killed]
    inv,                \* the 'convert-files' invocations of ipcMain.handle
    lifecycle,          \* the app: "running", "before-quit" once it was emitted, "quit"
    \* renderer of the request/response shell (renderer.js)
    queue,              \* the Map queue: file -> state, "none" when absent
    conv,               \* the calls of convert: [pc, files, results]
    \* the converter's stdout as text (requirements.txt:367-398)
    wire,               \* tokens written by the converter and not yet read
    written,            \* the 'Converted:' lines written: [input, output]
    fileConverted,      \* the payloads of the 'file-converted' events sent
    \* the context bridge (preload.js)
    ipcOn,              \* ipcRenderer's listeners: channel -> sequence of wrappers
    listenerRegistry,   \* channel -> [has, map]: callback -> wrapper id, 0 if none
    nextWrapper,        \* wrappers created so far
    outbox,             \* what ipcRenderer.send / invoke handed to the main process
    ret,                \* the last call of api.send / api.invoke and what it returned
    nCalls,             \* calls of api.send and api.invoke so far
    nOn,                \* channel, callback -> calls of api.on
    nUnsub,             \* channel, callback -> calls of unsubscribe functions
    nMsgs,              \* messages delivered to the renderer so far
    lastCalls,          \* the callback invocations of the last message: [cb, ch, args]
    wcount,             \* wrapper id -> how often it has run
    removeAll,          \* the calls of api.removeAllListeners: [n, ch], ch of the last
    \* the conversion pipeline of the converter process and its output directory
    pipe,               \* [stage, job, pre, idx, cancel, results, temps, acquired]
    outDir,             \* output name -> [st, src]: the file and the input it holds
    \* startup of the request/response shell (electron-main.js:170-191)
    instance,           \* [pc, gotLock, window, ipcHandlers, lifecycleHandlers]
    \* the two ends of the channels (preload.js, requirements.txt:464-542)
    mainIpc,            \* ipcMain: [n, last]: messages of outbox taken, fate of the last
    down                \* the channel of the last event the main process sent

rendererVars == <<files, convertedFiles, isConverting, rJob, nEdits, rFiles>>
mainVars == <<converterProcess, procs, nJobs, outcome, sent, lastCancel, mainWindow, quitting,
              nullUse>>
ipcVars == <<toMain, toRenderer>>
appVars == <<rendererVars, mainVars, ipcVars>>
shellVars == <<backendProcess, backends, inv, lifecycle>>
convVars == <<queue, conv>>
stdoutVars == <<wire, written, fileConverted>>
bridgeVars == <<ipcOn, listenerRegistry, nextWrapper, outbox, ret, nCalls, nOn, nUnsub,
                nMsgs, lastCalls, wcount, removeAll>>
\* what the event-driven application leaves alone, and what the shell's main
\* process leaves alone
pipeVars == <<pipe, outDir>>
bootVars == <<instance>>
chanVars == <<mainIpc, down>>
outsideApp == <<shellVars, convVars, stdoutVars, bridgeVars, pipeVars, bootVars, chanVars>>
outsideShell == <<appVars, convVars, stdoutVars, bridgeVars, pipeVars, bootVars, chanVars>>
outsideBridge == <<appVars, shellVars, convVars, stdoutVars, pipeVars, bootVars, chanVars>>
outsidePipe == <<appVars, shellVars, convVars, stdoutVars, bridgeVars, bootVars, chanVars>>
vars == <<appVars, shellVars, convVars, stdoutVars, bridgeVars, pipeVars, bootVars, chanVars>>

\* ----------------------------------------------------------------- helpers
FinalStatuses == {"completed", "error", "cancelled"}

TerminalChannels == {"conversion-complete", "conversion-error", "conversion-cancelled"}

DataChannels == {"conversion-progress", "file-converted"}

NoProc == [st |-> "none", files |-> <<>>, idx |-> 0, failed |-> FALSE,
           signalled |-> FALSE, errPending |-> FALSE]

Event(ch, job, input) == [ch |-> ch, job |-> job, input |-> input]

\* how many events of the sequence evs are on a channel of the set chs
CountOn(evs, chs) == Cardinality({i \in DOMAIN evs : evs[i].ch \in chs})

CountedChannels == {"conversion-started"} \cup TerminalChannels

NoneSent == [c \in CountedChannels |-> 0]

\* mainWindow.webContents.send(channel, ...) for request j: the events join the
\* queue to the renderer, and the history counts them by channel
Send(q, log, j, evs) ==
    [q |-> q \o evs,
     log |-> [log EXCEPT ![j] = [c \in CountedChannels |-> @[c] + CountOn(evs, {c})]]]

\* ---------------------------------------------------------------- renderer
\* getFileName (part_002:107-109): filePath.split(/[/\\]/).pop()
getFileName(filePath) == filePath[Len(filePath)]

\* findIndex (part_002:450): first index whose path or name matches, 0 if none
FindFileIndex(fs, input) ==
    LET hits == {i \in DOMAIN fs :
                    fs[i].path = input \/ getFileName(fs[i].path) = getFileName(input)}
    IN IF hits = {} THEN 0 ELSE CHOOSE i \in hits : \A k \in hits : i <= k

\* addFiles without its filter of duplicates
addFiles_NoFilter(filePaths) ==
    LET newFiles == [i \in DOMAIN filePaths |->
                        [path |-> filePaths[i], status |-> "pending"]]
    IN /\ nEdits < MaxEdits
       /\ Len(files) + Len(newFiles) <= MaxFiles
       /\ files' = files \o newFiles
       /\ nEdits' = nEdits + 1
       /\ UNCHANGED <<convertedFiles, isConverting, rJob, rFiles, mainVars, ipcVars, outsideApp>>

\* addFiles (part_002:148-163)
addFiles(filePaths) ==
    LET existingPaths == {files[i].path : i \in DOMAIN files}
        newFiles == [i \in DOMAIN filePaths |->
                        [path |-> filePaths[i], status |-> "pending"]]
        IsNew(f) == f.path \notin existingPaths
        uniqueNewFiles == SelectSeq(newFiles, IsNew)
    IN /\ nEdits < MaxEdits
       /\ Len(files) + Len(uniqueNewFiles) <= MaxFiles
       /\ files' = files \o uniqueNewFiles
       /\ nEdits' = nEdits + 1
       /\ UNCHANGED <<convertedFiles, isConverting, rJob, rFiles, mainVars, ipcVars, outsideApp>>

\* removeFile (part_002:169-172): splice(index, 1), index from the list's buttons
removeFile(index) ==
    /\ nEdits < MaxEdits
    /\ index \in DOMAIN files
    /\ files' = [i \in 1..(Len(files) - 1) |-> IF i < index THEN files[i] ELSE files[i + 1]]
    /\ nEdits' = nEdits + 1
    /\ UNCHANGED <<convertedFiles, isConverting, rJob, rFiles, mainVars, ipcVars, outsideApp>>

\* clearFiles (part_002:177-183), reached from the shortcut only when idle (576)
clearFiles ==
    /\ nEdits < MaxEdits
    /\ ~isConverting
    /\ files' = <<>>
    /\ convertedFiles' = <<>>
    /\ nEdits' = nEdits + 1
    /\ UNCHANGED <<isConverting, rJob, rFiles, mainVars, ipcVars, outsideApp>>

\* startConversion without its guard on isConverting
startConversion_Unguarded ==
    IF Len(files) = 0
    THEN UNCHANGED vars
    ELSE /\ rJob < MaxJobs
         /\ isConverting' = TRUE
         /\ convertedFiles' = <<>>
         /\ files' = [i \in DOMAIN files |-> [files[i] EXCEPT !.status = "pending"]]
         /\ toMain' = Append(toMain, [type |-> "convert-files",
                                      files |-> [i \in DOMAIN files |-> files[i].path]])
         /\ rJob' = rJob + 1
         /\ rFiles' = [i \in DOMAIN files |-> files[i].path]
         /\ UNCHANGED <<nEdits, toRenderer, mainVars, outsideApp>>

\* startConversion (part_002:301-329)
startConversion ==
    IF Len(files) = 0 \/ isConverting
    THEN UNCHANGED vars
    ELSE /\ rJob < MaxJobs
         /\ isConverting' = TRUE
         /\ convertedFiles' = <<>>
         /\ files' = [i \in DOMAIN files |-> [files[i] EXCEPT !.status = "pending"]]
         /\ toMain' = Append(toMain, [type |-> "convert-files",
                                      files |-> [i \in DOMAIN files |-> files[i].path]])
         /\ rJob' = rJob + 1
         /\ rFiles' = [i \in DOMAIN files |-> files[i].path]
         /\ UNCHANGED <<nEdits, toRenderer, mainVars, outsideApp>>

\* cancelConversion of the renderer (part_002:334-339)
requestCancel ==
    IF ~isConverting
    THEN UNCHANGED vars
    ELSE /\ Len(toMain) < MaxPending
         /\ toMain' = Append(toMain, [type |-> "cancel-conversion", files |-> <<>>])
         /\ UNCHANGED <<rendererVars, toRenderer, mainVars, outsideApp>>

\* the listeners of setupIPCListeners (part_002:426-520), applied to one event
OnRendererEvent(ev) ==
    CASE ev.ch = "conversion-started" ->
            /\ isConverting' = TRUE
            /\ UNCHANGED <<files, convertedFiles>>
      [] ev.ch = "conversion-progress" ->
            UNCHANGED <<files, convertedFiles, isConverting>>
      [] ev.ch = "file-converted" ->
            LET fileIndex == FindFileIndex(files, ev.input)
            IN /\ convertedFiles' = Append(convertedFiles, ev.input)
               /\ files' = IF fileIndex # 0
                           THEN [files EXCEPT ![fileIndex].status = "completed"]
                           ELSE files
               /\ UNCHANGED isConverting
      [] ev.ch = "conversion-complete" ->
            /\ isConverting' = FALSE
            /\ files' = [i \in DOMAIN files |->
                            IF files[i].status # "completed"
                            THEN [files[i] EXCEPT !.status = "completed"]
                            ELSE files[i]]
            /\ UNCHANGED convertedFiles
      [] ev.ch = "conversion-error" ->
            /\ isConverting' = FALSE
            /\ files' = [i \in DOMAIN files |->
                            IF files[i].status # "completed"
                            THEN [files[i] EXCEPT !.status = "error"]
                            ELSE files[i]]
            /\ UNCHANGED convertedFiles
      [] ev.ch = "conversion-cancelled" ->
            /\ isConverting' = FALSE
            /\ files' = [i \in DOMAIN files |->
                            IF files[i].status \in {"pending", "processing"}
                            THEN [files[i] EXCEPT !.status = "cancelled"]
                            ELSE files[i]]
            /\ UNCHANGED convertedFiles

\* delivery of the next event to its listener (preload.js:97-130, ipcRenderer.on)
RendererReceive ==
    /\ toRenderer # <<>>
    /\ OnRendererEvent(Head(toRenderer))
    /\ toRenderer' = Tail(toRenderer)
    /\ UNCHANGED <<toMain, rJob, nEdits, rFiles, mainVars, outsideApp>>

\* --------------------------------------------------- converter (child process)
\* the argument of 'close', written as text: "0", a non-zero exit code "1",
\* "null" (ended by a signal), "-2" (the errno of a spawn that failed)
CloseCodes == {"0", "1", "null", "-2"}

\* the line the converter writes about an input: a result line when the file
\* converted, a progress line when it did not
ConverterLine(f, ok) == [kind |-> IF ok THEN "Converted" ELSE "Processing", input |-> f]

\* the codes a process can end with: the errno when it never started; 0 after
\* converting every input; 1 after a failure or a crash; null when a SIGTERM
\* ended it (it may also have ended by itself just before the signal)
ExitCodes(p) ==
    IF p.st = "failed" THEN {"-2"}
    ELSE (IF p.idx = Len(p.files) /\ ~p.failed THEN {"0"} ELSE {"1"})
         \cup (IF p.signalled THEN {"null"} ELSE {})

\* ------------------------------------------------------------ main process
\* what the environment answers inside convertFiles
ConvertEnvs == {"noScript", "mkdirThrows", "spawnThrows", "spawnFails", "spawned"}

\* the 'data' handler's parse of one line (requirements.txt:373-396)
LineEvents(j, line) ==
    IF line.kind = "Processing"
    THEN <<Event("conversion-progress", j, <<>>)>>
    ELSE IF line.kind = "Converted"
    THEN <<Event("file-converted", j, line.input)>>
    ELSE <<>>

RECURSIVE ChunkEvents(_, _)
ChunkEvents(j, lines) ==
    IF lines = <<>> THEN <<>>
    ELSE LineEvents(j, Head(lines)) \o ChunkEvents(j, Tail(lines))

\* convertFiles (requirements.txt:319-447) for the request numbered j
convertFiles(filePaths, env) ==
    LET j == nJobs + 1
        started == Event("conversion-started", j, <<>>)
        error == Event("conversion-error", j, <<>>)
    IN /\ nJobs' = j
       /\ UNCHANGED lastCancel
       /\ IF Len(filePaths) = 0
          THEN \* 320-326: NO_FILES
               LET r == Send(toRenderer, sent, j, <<error>>)
               IN /\ toRenderer' = r.q
                  /\ sent' = r.log
                  /\ outcome' = [outcome EXCEPT ![j] = "noFiles"]
                  /\ UNCHANGED <<converterProcess, procs>>
          ELSE CASE env = "noScript" ->
                    \* 329-335: CONVERTER_NOT_FOUND
                    LET r == Send(toRenderer, sent, j, <<error>>)
                    IN /\ toRenderer' = r.q
                       /\ sent' = r.log
                       /\ outcome' = [outcome EXCEPT ![j] = env]
                       /\ UNCHANGED <<converterProcess, procs>>
                 [] env = "mkdirThrows" ->
                    \* 338: ensureOutputDir throws outside the try block; the
                    \* promise of the async function rejects, nobody awaits it (473)
                    /\ outcome' = [outcome EXCEPT ![j] = env]
                    /\ UNCHANGED <<toRenderer, sent, converterProcess, procs>>
                 [] env = "spawnThrows" ->
                    \* 352-356, then 440-446: UNKNOWN_ERROR, converterProcess not assigned
                    LET r == Send(toRenderer, sent, j, <<started, error>>)
                    IN /\ toRenderer' = r.q
                       /\ sent' = r.log
                       /\ outcome' = [outcome EXCEPT ![j] = env]
                       /\ UNCHANGED <<converterProcess, procs>>
                 [] env \in {"spawnFails", "spawned"} ->
                    \* 352-362: the ChildProcess object exists either way; a failed
                    \* spawn emits 'error' and then 'close' later
                    LET r == Send(toRenderer, sent, j, <<started>>)
                    IN /\ toRenderer' = r.q
                       /\ sent' = r.log
                       /\ outcome' = [outcome EXCEPT ![j] = env]
                       /\ converterProcess' = j
                       /\ procs' = [procs EXCEPT ![j] =
                              [NoProc EXCEPT
                                 !.st = IF env = "spawned" THEN "running" ELSE "failed",
                                 !.files = filePaths,
                                 !.errPending = (env = "spawnFails")]]

\* cancelConversion (requirements.txt:452-462)
cancelConversion ==
    IF converterProcess # 0
    THEN LET r == Send(toRenderer, sent, converterProcess,
                       <<Event("conversion-cancelled", converterProcess, <<>>)>>)
         IN /\ procs' = [procs EXCEPT ![converterProcess].signalled = TRUE]
            /\ converterProcess' = 0
            /\ toRenderer' = r.q
            /\ sent' = r.log
            /\ lastCancel' = TRUE
            /\ UNCHANGED <<nJobs, outcome>>
    ELSE /\ lastCancel' = FALSE
         /\ UNCHANGED <<converterProcess, procs, nJobs, outcome, sent, toRenderer>>

\* ipcMain.on('convert-files') and ipcMain.on('cancel-conversion') (472-487)
MainReceive ==
    /\ mainWindow
    /\ toMain # <<>>
    /\ toMain' = Tail(toMain)
    /\ UNCHANGED <<mainWindow, quitting, nullUse>>
    /\ IF Head(toMain).type = "convert-files"
       THEN \E env \in ConvertEnvs : convertFiles(Head(toMain).files, env)
       ELSE cancelConversion
    /\ UNCHANGED <<rendererVars, outsideApp>>

\* mainWindow.webContents.send(...) in a handler of the child process (377-433):
\* with mainWindow null the expression throws and nothing is sent
WebContentsSend(j, evs) ==
    IF mainWindow
    THEN LET r == Send(toRenderer, sent, j, evs)
         IN /\ toRenderer' = r.q
            /\ sent' = r.log
            /\ UNCHANGED nullUse
    ELSE /\ nullUse' = TRUE
         /\ UNCHANGED <<toRenderer, sent>>

\* mainWindow.on('closed') (154-161): the renderer is gone with the window and
\* its messages with it
WindowClosed ==
    /\ mainWindow
    /\ mainWindow' = FALSE
    /\ IF converterProcess # 0
       THEN /\ procs' = [procs EXCEPT ![converterProcess].signalled = TRUE]
            /\ converterProcess' = 0
       ELSE UNCHANGED <<converterProcess, procs>>
    /\ toMain' = <<>>
    /\ toRenderer' = <<>>
    /\ UNCHANGED <<nJobs, outcome, sent, lastCancel, quitting, nullUse, rendererVars, outsideApp>>

\* app.on('before-quit') (566-570): the reference is kept
AppBeforeQuit ==
    /\ ~quitting
    /\ quitting' = TRUE
    /\ IF converterProcess # 0
       THEN procs' = [procs EXCEPT ![converterProcess].signalled = TRUE]
       ELSE UNCHANGED procs
    /\ UNCHANGED <<converterProcess, nJobs, outcome, sent, lastCancel, mainWindow, nullUse,
                   ipcVars, rendererVars, outsideApp>>

\* converterProcess.stdout.on('data') (367-398): the converter reports its next
\* input in a line of its own and the handler parses the chunk. A line written
\* before a SIGTERM took effect is still read after cancelConversion returned.
OnStdoutData(j, ok) ==
    /\ procs[j].st = "running"
    /\ procs[j].idx < Len(procs[j].files)
    /\ LET line == ConverterLine(procs[j].files[procs[j].idx + 1], ok)
       IN WebContentsSend(j, ChunkEvents(j, <<line>>))
    /\ procs' = [procs EXCEPT ![j].idx = @ + 1, ![j].failed = @ \/ ~ok]
    /\ UNCHANGED <<converterProcess, nJobs, outcome, lastCancel, mainWindow, quitting, toMain,
                   rendererVars, outsideApp>>

\* converterProcess.on('close') (412-429): emitted once the process has ended
\* and its stdio streams are closed, with the exit code byCode
OnClose(j, byCode) ==
    /\ procs[j].st \in {"running", "failed"}
    /\ ~procs[j].errPending
    /\ byCode \in ExitCodes(procs[j])
    /\ converterProcess' = 0
    /\ LET ch == IF byCode = "0" THEN "conversion-complete" ELSE "conversion-error"
       IN WebContentsSend(j, <<Event(ch, j, <<>>)>>)
    /\ procs' = [procs EXCEPT ![j] = [NoProc EXCEPT !.st = "closed"]]
    /\ UNCHANGED <<nJobs, outcome, lastCancel, mainWindow, quitting, toMain, rendererVars,
                   outsideApp>>

\* converterProcess.on('error') (431-438): the process could not be spawned
OnError(j) ==
    /\ procs[j].st = "failed"
    /\ procs[j].errPending
    /\ converterProcess' = 0
    /\ WebContentsSend(j, <<Event("conversion-error", j, <<>>)>>)
    /\ procs' = [procs EXCEPT ![j].errPending = FALSE]
    /\ UNCHANGED <<nJobs, outcome, lastCancel, mainWindow, quitting, toMain, rendererVars,
                   outsideApp>>

\* ------------------------------------------- request/response shell (main)
\* maxAttempts of ensureBackendReady (electron-main.js:44)
maxAttempts == 25

\* one invocation of the 'convert-files' handler: where it stands, what it was
\* given, the health checks that failed, whether one returned OK, whether it
\* spawned a backend and posted /convert, what /convert answered, and how its
\* promise settled
NoInvocation == [pc |-> "idle", files |-> <<>>, attempts |-> 0, healthy |-> FALSE,
                 spawned |-> FALSE, posted |-> FALSE, answer |-> "none", result |-> "none"]

Rejections == {"notReady", "badStatus", "fetchFailed"}

\* ipcMain.handle('convert-files') up to its first await (electron-main.js:114-116)
\* with the synchronous head of ensureBackendReady (39-42) and startBackend (58-90)
HandleConvertFiles(i, fs) ==
    /\ lifecycle # "quit"
    /\ inv[i].pc = "idle"
    /\ IF Len(fs) = 0
       THEN /\ inv' = [inv EXCEPT ![i] = [@ EXCEPT !.pc = "done", !.result = "empty"]]
            /\ UNCHANGED <<backendProcess, backends>>
       ELSE IF backendProcess = 0 \/ backends[backendProcess].killed
       THEN /\ Len(backends) < MaxBackends
            /\ backends' = Append(backends, [st |-> "running", killed |-> FALSE])
            /\ backendProcess' = Len(backends) + 1
            /\ inv' = [inv EXCEPT ![i] = [@ EXCEPT !.pc = "health", !.files = fs,
                                                    !.spawned = TRUE]]
       ELSE /\ inv' = [inv EXCEPT ![i] = [@ EXCEPT !.pc = "health", !.files = fs]]
            /\ UNCHANGED <<backendProcess, backends>>
    /\ UNCHANGED <<lifecycle, outsideShell>>

\* a polling loop that gives up silently and lets the handler go on
HealthCheck_NoThrow(i, ok) ==
    /\ lifecycle # "quit"
    /\ inv[i].pc = "health"
    /\ ok => \E b \in DOMAIN backends : backends[b].st = "running"
    /\ inv' = [inv EXCEPT ![i] =
           IF ok THEN [@ EXCEPT !.pc = "post", !.healthy = TRUE]
           ELSE IF @.attempts + 1 = maxAttempts
           THEN [@ EXCEPT !.attempts = @ + 1, !.pc = "post"]
           ELSE [@ EXCEPT !.attempts = @ + 1]]
    /\ UNCHANGED <<backendProcess, backends, lifecycle, outsideShell>>

\* a polling loop with the bound i <= maxAttempts: one round more
HealthCheck_OneMore(i, ok) ==
    /\ lifecycle # "quit"
    /\ inv[i].pc = "health"
    /\ ok => \E b \in DOMAIN backends : backends[b].st = "running"
    /\ inv' = [inv EXCEPT ![i] =
           IF ok THEN [@ EXCEPT !.pc = "post", !.healthy = TRUE]
           ELSE IF @.attempts = maxAttempts
           THEN [@ EXCEPT !.attempts = @ + 1, !.pc = "done", !.result = "notReady"]
           ELSE [@ EXCEPT !.attempts = @ + 1]]
    /\ UNCHANGED <<backendProcess, backends, lifecycle, outsideShell>>

\* one round of the polling loop of ensureBackendReady (electron-main.js:46-55):
\* only a running backend answers /health with an OK response
HealthCheck(i, ok) ==
    /\ lifecycle # "quit"
    /\ inv[i].pc = "health"
    /\ ok => \E b \in DOMAIN backends : backends[b].st = "running"
    /\ inv' = [inv EXCEPT ![i] =
           IF ok THEN [@ EXCEPT !.pc = "post", !.healthy = TRUE]
           ELSE IF @.attempts + 1 = maxAttempts
           THEN [@ EXCEPT !.attempts = @ + 1, !.pc = "done", !.result = "notReady"]
           ELSE [@ EXCEPT !.attempts = @ + 1]]
    /\ UNCHANGED <<backendProcess, backends, lifecycle, outsideShell>>

\* POST /convert and the answer's check (electron-main.js:118-129)
PostConvert(i, answer) ==
    /\ lifecycle # "quit"
    /\ inv[i].pc = "post"
    /\ answer = "ok" => \E b \in DOMAIN backends : backends[b].st = "running"
    /\ inv' = [inv EXCEPT ![i] = [@ EXCEPT !.pc = "done", !.posted = TRUE,
                                           !.answer = answer,
                                           !.result = CASE answer = "ok" -> "results"
                                                        [] answer = "notOk" -> "badStatus"
                                                        [] OTHER -> "fetchFailed"]]
    /\ UNCHANGED <<backendProcess, backends, lifecycle, outsideShell>>

\* the backend process ends by itself, or after a SIGTERM (electron-main.js:84-89)
BackendExit(b) ==
    /\ b \in DOMAIN backends
    /\ backends[b].st = "running"
    /\ backends' = [backends EXCEPT ![b].st = "exited"]
    /\ UNCHANGED <<backendProcess, inv, lifecycle, outsideShell>>

\* stopBackend (electron-main.js:92-97)
stopBackend ==
    IF backendProcess # 0 /\ ~backends[backendProcess].killed
    THEN /\ backends' = [backends EXCEPT ![backendProcess].killed = TRUE]
         /\ backendProcess' = 0
    ELSE UNCHANGED <<backendProcess, backends>>

\* app.on('before-quit', stopBackend) (electron-main.js:155): emitted when the
\* app starts to quit, before its windows are closed; it is emitted again when
\* a quit is asked for again
BeforeQuit ==
    /\ lifecycle # "quit"
    /\ lifecycle' = "before-quit"
    /\ stopBackend
    /\ UNCHANGED <<inv, outsideShell>>

\* the windows are closed and the main process ends; its child processes are
\* not ended with it (spawn at electron-main.js:70-74)
Quit ==
    /\ lifecycle = "before-quit"
    /\ lifecycle' = "quit"
    /\ UNCHANGED <<backendProcess, backends, inv, outsideShell>>

\* ------------------------------------------ startup of the shell (bootstrap)
NoInstance ==
    [pc |-> "start", gotLock |-> FALSE, window |-> FALSE, ipcHandlers |-> FALSE,
     lifecycleHandlers |-> FALSE]

\* bootstrap (170-189) that goes on after app.quit()
bootstrap_NoReturn(gotLock) ==
    /\ instance.pc = "start"
    /\ instance' = [instance EXCEPT !.gotLock = gotLock, !.pc = "whenReady"]
    /\ lifecycle' = IF gotLock THEN lifecycle ELSE "quit"
    /\ UNCHANGED <<backendProcess, backends, inv, appVars, convVars, stdoutVars, bridgeVars,
                   pipeVars, chanVars>>

\* bootstrap (170-189) up to app.whenReady(): without the lock app.quit() and
\* return; no 'before-quit' listener exists yet
bootstrap(gotLock) ==
    /\ instance.pc = "start"
    /\ instance' = [instance EXCEPT !.gotLock = gotLock,
                                    !.pc = IF gotLock THEN "whenReady" ELSE "quit"]
    /\ lifecycle' = IF gotLock THEN lifecycle ELSE "quit"
    /\ UNCHANGED <<backendProcess, backends, inv, appVars, convVars, stdoutVars, bridgeVars,
                   pipeVars, chanVars>>

\* the callback of app.whenReady() (185-189): createWindow (12-37),
\* registerIpcHandlers (99-152), registerLifecycle (154-168)
WhenReady ==
    /\ instance.pc = "whenReady"
    /\ instance' = [instance EXCEPT !.pc = "ready", !.window = TRUE, !.ipcHandlers = TRUE,
                                    !.lifecycleHandlers = TRUE]
    /\ UNCHANGED <<appVars, shellVars, convVars, stdoutVars, bridgeVars, pipeVars, chanVars>>

\* ------------------------------------------ the converter's stdout as text
\* Text is a sequence of tokens: the words "Converted:", "->", "INFO -" and
\* "Processing:", the line feed "\n", and the pieces of file names.
\* the inputs of the text-level model and the output the converter names for each
StdoutInputs == <<<<"x", "a">>, <<"y", "b">>, <<"x", "c">>>>

OutputOf(f) == <<"out", f[Len(f)]>>

\* the line the converter writes for a converted input, with its line feed
ConvertedText(f) == <<"Converted:">> \o f \o <<"->">> \o OutputOf(f) \o <<"\n">>

\* text.split('\n') (requirements.txt:372)
RECURSIVE SplitLines(_, _)
SplitLines(text, cur) ==
    IF text = <<>> THEN <<cur>>
    ELSE IF Head(text) = "\n" THEN <<cur>> \o SplitLines(Tail(text), <<>>)
    ELSE SplitLines(Tail(text), Append(cur, Head(text)))

Includes(line, tok) == \E k \in DOMAIN line : line[k] = tok

\* line.match(/Converted:\s*(.+?)\s*->\s*(.+)/) (389): the first 'Converted:',
\* the shortest non-empty input before an arrow that has text after it
MatchConverted(line) ==
    LET c == CHOOSE k \in DOMAIN line :
                 line[k] = "Converted:" /\ \A m \in 1..(k - 1) : line[m] # "Converted:"
        arrows == {a \in DOMAIN line : a > c + 1 /\ line[a] = "->" /\ a < Len(line)}
    IN IF arrows = {} THEN <<>>
       ELSE LET a == CHOOSE x \in arrows : \A y \in arrows : x <= y
            IN <<[input |-> SubSeq(line, c + 1, a - 1),
                  output |-> SubSeq(line, a + 1, Len(line))]>>

\* the branches of the loop body (374-396), as the payloads of the
\* 'file-converted' events one line sends
LineConverted(line) ==
    IF Includes(line, "Processing:") THEN <<>>
    ELSE IF Includes(line, "INFO -") THEN <<>>
    ELSE IF Includes(line, "Converted:") THEN MatchConverted(line)
    ELSE <<>>

RECURSIVE LinesConverted(_)
LinesConverted(lines) ==
    IF lines = <<>> THEN <<>>
    ELSE LineConverted(Head(lines)) \o LinesConverted(Tail(lines))

\* the converter reports its next converted input
ConverterWrites ==
    /\ Len(written) < MaxLines
    /\ Len(written) < Len(StdoutInputs)
    /\ LET f == StdoutInputs[Len(written) + 1]
       IN /\ wire' = wire \o ConvertedText(f)
          /\ written' = Append(written, [input |-> f, output |-> OutputOf(f)])
    /\ UNCHANGED <<fileConverted, appVars, shellVars, convVars, bridgeVars, pipeVars, bootVars, chanVars>>

\* converterProcess.stdout.on('data') (367-398) for a chunk of the first n tokens
StdoutChunk(n) ==
    /\ n \in 1..Len(wire)
    /\ fileConverted' = fileConverted \o LinesConverted(SplitLines(SubSeq(wire, 1, n), <<>>))
    /\ wire' = SubSeq(wire, n + 1, Len(wire))
    /\ UNCHANGED <<written, appVars, shellVars, convVars, bridgeVars, pipeVars, bootVars, chanVars>>

\* --------------------------------------- request/response shell (renderer)
\* the file lists a dialog or a drop hands to convert
ConvertInputs == {<<>>, <<<<"x", "a">>>>, <<<<"x", "a">>, <<"x", "b">>>>}

ConvertFiles == UNION {{fs[k] : k \in DOMAIN fs} : fs \in ConvertInputs}

NoConvert == [pc |-> "idle", files |-> <<>>, results |-> <<>>]

\* the body of the backend's answer to POST /convert: one result per input, in
\* input order, a success with the document's content or a failure with the
\* error detail
BackendResults(fs) ==
    {[k \in DOMAIN fs |-> [path |-> fs[k], ok |-> oks[k]]] : oks \in [DOMAIN fs -> BOOLEAN]}

\* the entries of fs at the indices of S, in order
Pick(fs, S) ==
    LET sel == SelectSeq([k \in 1..Len(fs) |-> k], LAMBDA k : k \in S)
    IN [n \in DOMAIN sel |-> fs[sel[n]]]

\* what response.json() can hand back (electron-main.js:129): the handler
\* passes the body on unchecked, so it may hold entries for only some inputs
BackendAnswers(fs) == UNION {BackendResults(Pick(fs, S)) : S \in SUBSET DOMAIN fs}

\* result.results.forEach(...) (renderer.js:39-44): item.content.slice throws for
\* an entry without content, before queue.set, and ends the loop
RECURSIVE SetResults(_, _)
SetResults(q, results) ==
    IF results = <<>> THEN [q |-> q, threw |-> FALSE]
    ELSE IF ~Head(results).ok THEN [q |-> q, threw |-> TRUE]
    ELSE SetResults([q EXCEPT ![Head(results).path] = "complete"], Tail(results))

\* convert (renderer.js:28-38) up to the await of window.api.convertFiles
convert(i, fs) ==
    /\ conv[i].pc = "idle"
    /\ inv[i].pc = "idle"
    /\ IF Len(fs) = 0
       THEN UNCHANGED <<queue, conv>>
       ELSE /\ queue' = [f \in ConvertFiles |->
                            IF \E k \in DOMAIN fs : fs[k] = f THEN "pending" ELSE queue[f]]
            /\ conv' = [conv EXCEPT ![i] = [@ EXCEPT !.pc = "invoked", !.files = fs]]
    /\ UNCHANGED <<appVars, shellVars, stdoutVars, bridgeVars, pipeVars, bootVars, chanVars>>

\* ipcRenderer.invoke('convert-files', files) reaches the handler
InvokeConvertFiles(i) ==
    /\ conv[i].pc = "invoked"
    /\ HandleConvertFiles(i, conv[i].files)

\* convert after the await (renderer.js:38-52): the promise of invocation i has
\* settled, with the body res when the backend answered
ConvertSettled(i, res) ==
    /\ conv[i].pc = "invoked"
    /\ inv[i].pc = "done"
    /\ IF inv[i].result = "results"
       THEN /\ res \in BackendAnswers(conv[i].files)
            /\ LET r == SetResults(queue, res)
                   mine(f) == \E k \in DOMAIN conv[i].files : conv[i].files[k] = f
               IN queue' = IF r.threw
                           THEN [f \in ConvertFiles |-> IF mine(f) THEN "error" ELSE r.q[f]]
                           ELSE r.q
       ELSE /\ res = <<>>
            /\ queue' = [f \in ConvertFiles |->
                            IF \E k \in DOMAIN conv[i].files : conv[i].files[k] = f
                            THEN "error" ELSE queue[f]]
    /\ conv' = [conv EXCEPT ![i] = [@ EXCEPT !.pc = "settled", !.results = res]]
    /\ UNCHANGED <<appVars, shellVars, stdoutVars, bridgeVars, pipeVars, bootVars, chanVars>>

\* ------------------------------------------------ context bridge (preload)
SEND_CHANNELS == {"convert-files", "select-files", "cancel-conversion", "window-minimize",
                  "window-maximize", "window-close", "open-output-folder", "open-file",
                  "reveal-file"}

RECEIVE_CHANNELS == {"conversion-started", "conversion-progress", "conversion-complete",
                     "conversion-error", "conversion-warning", "conversion-cancelled",
                     "file-converted", "files-selected"}

INVOKE_CHANNELS == {"open-file-dialog", "get-app-info", "get-system-theme"}

\* the channels the renderer's code and the main process use in the model: two
\* receive channels, a send channel, an invoke channel and one in no set
BridgeChannels == {"conversion-complete", "conversion-error", "convert-files",
                   "open-file-dialog", "window-action"}

\* the functions the renderer passes as callbacks
Callbacks == {"f", "g"}

NoReturn == [op |-> "none", ch |-> "none", value |-> "none"]

NoListeners == [has |-> FALSE, map |-> [cb \in Callbacks |-> 0]]

\* what main sends: ipcRenderer emits (event, ...args) to the listeners
Message == <<"event", "data">>

\* the wrappers' call callback(...args) (preload.js:104-110, 139-147)
WrapperArgs(msg) == Tail(msg)

\* the removal placed after the callback in the try block instead
OnceRemoves_UnlessThrown(threw) == ~threw

\* whether a once-wrapper removes itself after its callback threw or returned:
\* the removal is in the finally clause (preload.js:144-146)
OnceRemoves(threw) == TRUE

\* ipcRenderer.removeListener(channel, wrapper)
RemoveListener(ws, wid) ==
    LET Other(w) == w.id # wid
    IN SelectSeq(ws, Other)

\* api.send without the test of the channel
apiSend_NoWhitelist(ch) ==
    /\ nCalls < MaxOut
    /\ nCalls' = nCalls + 1
    /\ outbox' = Append(outbox, [via |-> "send", ch |-> ch])
    /\ ret' = [op |-> "send", ch |-> ch, value |-> "true"]
    /\ UNCHANGED <<ipcOn, listenerRegistry, nextWrapper, nOn, nUnsub, nMsgs, lastCalls,
                   wcount, removeAll, outsideBridge>>

\* api.send (preload.js:63-70)
apiSend(ch) ==
    /\ nCalls < MaxOut
    /\ nCalls' = nCalls + 1
    /\ IF ch \in SEND_CHANNELS
       THEN /\ outbox' = Append(outbox, [via |-> "send", ch |-> ch])
            /\ ret' = [op |-> "send", ch |-> ch, value |-> "true"]
       ELSE /\ outbox' = outbox
            /\ ret' = [op |-> "send", ch |-> ch, value |-> "false"]
    /\ UNCHANGED <<ipcOn, listenerRegistry, nextWrapper, nOn, nUnsub, nMsgs, lastCalls,
                   wcount, removeAll, outsideBridge>>

\* api.invoke (preload.js:78-89); failed: the call through ipcRenderer rejects
apiInvoke(ch, failed) ==
    /\ nCalls < MaxOut
    /\ nCalls' = nCalls + 1
    /\ IF ch \in INVOKE_CHANNELS
       THEN /\ outbox' = Append(outbox, [via |-> "invoke", ch |-> ch])
            /\ ret' = [op |-> "invoke", ch |-> ch,
                       value |-> IF failed THEN "IPC invoke failed" ELSE "response"]
       ELSE /\ outbox' = outbox
            /\ ret' = [op |-> "invoke", ch |-> ch, value |-> "Invalid channel"]
    /\ UNCHANGED <<ipcOn, listenerRegistry, nextWrapper, nOn, nUnsub, nMsgs, lastCalls,
                   wcount, removeAll, outsideBridge>>

\* api.on without the test of the channel
apiOn_NoWhitelist(ch, cb) ==
    /\ nextWrapper < MaxWrappers
    /\ nextWrapper' = nextWrapper + 1
    /\ listenerRegistry' = [listenerRegistry EXCEPT ![ch] =
           [has |-> TRUE, map |-> [@.map EXCEPT ![cb] = nextWrapper + 1]]]
    /\ ipcOn' = [ipcOn EXCEPT ![ch] =
           Append(@, [id |-> nextWrapper + 1, cb |-> cb, once |-> FALSE])]
    /\ nOn' = [nOn EXCEPT ![ch][cb] = @ + 1]
    /\ UNCHANGED <<outbox, ret, nCalls, nUnsub, nMsgs, lastCalls, wcount, removeAll, outsideBridge>>

\* api.on (preload.js:97-130) up to the return of the unsubscribe function
apiOn(ch, cb) ==
    IF ch \notin RECEIVE_CHANNELS
    THEN UNCHANGED vars
    ELSE /\ nextWrapper < MaxWrappers
         /\ nextWrapper' = nextWrapper + 1
         /\ listenerRegistry' = [listenerRegistry EXCEPT ![ch] =
                [has |-> TRUE, map |-> [@.map EXCEPT ![cb] = nextWrapper + 1]]]
         /\ ipcOn' = [ipcOn EXCEPT ![ch] =
                Append(@, [id |-> nextWrapper + 1, cb |-> cb, once |-> FALSE])]
         /\ nOn' = [nOn EXCEPT ![ch][cb] = @ + 1]
         /\ UNCHANGED <<outbox, ret, nCalls, nUnsub, nMsgs, lastCalls, wcount, removeAll, outsideBridge>>

\* the lookup and removal shared by the unsubscribe function (122-129) and
\* api.off (163-172)
RemoveRegistered(ch, cb) ==
    LET m == listenerRegistry[ch]
    IN IF m.has /\ m.map[cb] # 0
       THEN /\ ipcOn' = [ipcOn EXCEPT ![ch] = RemoveListener(@, m.map[cb])]
            /\ listenerRegistry' = [listenerRegistry EXCEPT ![ch].map[cb] = 0]
       ELSE UNCHANGED <<ipcOn, listenerRegistry>>

\* a call of an unsubscribe function that api.on(ch, cb) returned (122-129)
Unsubscribe(ch, cb) ==
    /\ nUnsub[ch][cb] < nOn[ch][cb]
    /\ RemoveRegistered(ch, cb)
    /\ nUnsub' = [nUnsub EXCEPT ![ch][cb] = @ + 1]
    /\ UNCHANGED <<nextWrapper, outbox, ret, nCalls, nOn, nMsgs, lastCalls, wcount,
                   removeAll, outsideBridge>>

\* api.once (preload.js:137-155): the wrapper is not entered in the registry
apiOnce(ch, cb) ==
    IF ch \notin RECEIVE_CHANNELS
    THEN UNCHANGED vars
    ELSE /\ nextWrapper < MaxWrappers
         /\ nextWrapper' = nextWrapper + 1
         /\ ipcOn' = [ipcOn EXCEPT ![ch] =
                Append(@, [id |-> nextWrapper + 1, cb |-> cb, once |-> TRUE])]
         /\ UNCHANGED <<listenerRegistry, outbox, ret, nCalls, nOn, nUnsub, nMsgs,
                        lastCalls, wcount, removeAll, outsideBridge>>

\* api.off (preload.js:162-173)
apiOff(ch, cb) ==
    IF ch \notin RECEIVE_CHANNELS
    THEN UNCHANGED vars
    ELSE /\ RemoveRegistered(ch, cb)
         /\ UNCHANGED <<nextWrapper, outbox, ret, nCalls, nOn, nUnsub, nMsgs, lastCalls,
                        wcount, removeAll, outsideBridge>>

\* a removal of the registered wrappers only, which keeps the once-wrappers
apiRemoveAllListeners_RegisteredOnly(ch) ==
    /\ removeAll.n < MaxRemovals
    /\ removeAll' = [n |-> removeAll.n + 1, ch |-> ch]
    /\ IF ch \notin RECEIVE_CHANNELS
       THEN UNCHANGED <<ipcOn, listenerRegistry>>
       ELSE LET IsOnce(w) == w.once
            IN /\ ipcOn' = [ipcOn EXCEPT ![ch] = SelectSeq(@, IsOnce)]
               /\ listenerRegistry' = [listenerRegistry EXCEPT ![ch] = NoListeners]
    /\ UNCHANGED <<nextWrapper, outbox, ret, nCalls, nOn, nUnsub, nMsgs, lastCalls,
                   wcount, outsideBridge>>

\* api.removeAllListeners (preload.js:179-186)
apiRemoveAllListeners(ch) ==
    /\ removeAll.n < MaxRemovals
    /\ removeAll' = [n |-> removeAll.n + 1, ch |-> ch]
    /\ IF ch \notin RECEIVE_CHANNELS
       THEN UNCHANGED <<ipcOn, listenerRegistry>>
       ELSE /\ ipcOn' = [ipcOn EXCEPT ![ch] = <<>>]
            /\ listenerRegistry' = [listenerRegistry EXCEPT ![ch] = NoListeners]
    /\ UNCHANGED <<nextWrapper, outbox, ret, nCalls, nOn, nUnsub, nMsgs, lastCalls,
                   wcount, outsideBridge>>

\* a message of the main process on channel ch is emitted to the channel's
\* listeners as they are registered at that moment; the callbacks in threw throw.
\* Every wrapper calls its callback without the event (104-110, 139-147), and
\* a once-wrapper removes itself.
Deliver(ch, threw) ==
    /\ nMsgs < MaxMsgs
    /\ nMsgs' = nMsgs + 1
    /\ LET ws == ipcOn[ch]
           Stays(w) == ~(w.once /\ OnceRemoves(w.cb \in threw))
       IN /\ lastCalls' = [k \in DOMAIN ws |->
                              [cb |-> ws[k].cb, ch |-> ch, args |-> WrapperArgs(Message)]]
          /\ wcount' = [id \in DOMAIN wcount |->
                           IF \E k \in DOMAIN ws : ws[k].id = id
                           THEN wcount[id] + 1 ELSE wcount[id]]
          /\ ipcOn' = [ipcOn EXCEPT ![ch] = SelectSeq(ws, Stays)]
    /\ UNCHANGED <<listenerRegistry, nextWrapper, outbox, ret, nCalls, nOn, nUnsub,
                   removeAll, outsideBridge>>

\* --------------------------------------------- the two ends of the channels
\* every channel name the two processes use, and one that neither knows
AllChannels == SEND_CHANNELS \cup RECEIVE_CHANNELS \cup INVOKE_CHANNELS \cup {"window-action"}

\* ipcMain.on(...) without the handler of 'reveal-file'
IpcMainOn_NoRevealFile ==
    {"convert-files", "select-files", "cancel-conversion", "window-minimize",
     "window-maximize", "window-close", "open-output-folder", "open-file"}

\* the channels with an ipcMain.on listener (472-526)
IpcMainOn ==
    {"convert-files", "select-files", "cancel-conversion", "window-minimize",
     "window-maximize", "window-close", "open-output-folder", "open-file", "reveal-file"}

\* the channels with an ipcMain.handle handler (467, 529, 540)
IpcMainHandle == {"open-file-dialog", "get-app-info", "get-system-theme"}

\* the channels of the webContents.send and event.reply statements (209-480)
MainSends ==
    {"files-selected", "conversion-error", "conversion-started", "conversion-progress",
     "file-converted", "conversion-warning", "conversion-complete", "conversion-cancelled"}

\* the functions exposed beside api (192-252) and the channel each one uses
WindowControls ==
    [minimize |-> "window-minimize", maximize |-> "window-maximize", close |-> "window-close"]

FileOpsSend ==
    [convert |-> "convert-files", cancelConversion |-> "cancel-conversion",
     openOutputFolder |-> "open-output-folder", openFile |-> "open-file",
     revealFile |-> "reveal-file"]

FileOpsInvoke == [openDialog |-> "open-file-dialog"]

AppInfo == [get |-> "get-app-info", getTheme |-> "get-system-theme"]

\* ipcRenderer.send / ipcRenderer.invoke called by an exposed function with its
\* literal channel, without the whitelist test
Exposed(object, fn, via, ch) ==
    /\ nCalls < MaxOut
    /\ nCalls' = nCalls + 1
    /\ outbox' = Append(outbox, [via |-> via, ch |-> ch])
    /\ ret' = [op |-> object, ch |-> ch, value |-> IF via = "send" THEN "undefined" ELSE "response"]
    /\ UNCHANGED <<ipcOn, listenerRegistry, nextWrapper, nOn, nUnsub, nMsgs, lastCalls,
                   wcount, removeAll, outsideBridge>>

windowControls(fn) == Exposed("windowControls", fn, "send", WindowControls[fn])

fileOps(fn) ==
    IF fn \in DOMAIN FileOpsSend
    THEN Exposed("fileOps", fn, "send", FileOpsSend[fn])
    ELSE Exposed("fileOps", fn, "invoke", FileOpsInvoke[fn])

appInfo(fn) == Exposed("appInfo", fn, "invoke", AppInfo[fn])

\* ipcMain takes the next message the renderer handed over: a message sent runs
\* the listeners of its channel and is dropped when there is none; an invoke
\* runs the handler of its channel and is rejected when there is none
IpcMainDispatch ==
    /\ mainIpc.n < Len(outbox)
    /\ LET m == outbox[mainIpc.n + 1]
           registered == IF m.via = "send" THEN IpcMainOn ELSE IpcMainHandle
       IN mainIpc' = [n |-> mainIpc.n + 1,
                      last |-> IF m.ch \in registered THEN "ran" ELSE "unhandled"]
    /\ UNCHANGED <<down, bridgeVars, appVars, shellVars, convVars, stdoutVars, pipeVars,
                   bootVars>>

\* a webContents.send or event.reply statement of the main process runs
MainEvent(ch) ==
    /\ ch \in MainSends
    /\ down' = ch
    /\ UNCHANGED <<mainIpc, bridgeVars, appVars, shellVars, convVars, stdoutVars, pipeVars,
                   bootVars>>

\* ------------------------------------- conversion pipeline (child process)
\* The converter runs the job it was spawned with (requirements.txt:344-362):
\* for each input in order extract, then write the document once under a name
\* made of the input's base name and, on a collision, a numeric suffix.
\* the jobs the pipeline is started with
PipelineJobs == {<<<<"x", "a">>, <<"y", "a">>>>, <<<<"x", "a">>, <<"x", "b">>>>,
                 <<<<"y", "a">>>>}

\* output names: <<"a", 0>> is a.json, <<"a", 1>> is a_1.json
OutNames == {"a", "b"} \X (0..MaxSuffix)

\* the names that exist in the output directory before the job
PreExisting == {{}, {<<"a", 0>>}}

\* src: 0 for no file, -1 for a file older than the job, else the input's index
AbsentFile == [st |-> "absent", src |-> 0]

NoPipeline == [stage |-> "idle", job |-> <<>>, pre |-> {}, idx |-> 0, cancel |-> FALSE,
               results |-> <<>>, temps |-> {}, acquired |-> 0]

FreeSuffixes(dir, base) == {n \in 0..MaxSuffix : dir[<<base, n>>].st = "absent"}

\* the base name alone, whatever the directory holds
OutputName_NoSuffix(dir, f) == <<f[Len(f)], 0>>

\* the name of the output of input f: its base name, with the first free suffix
OutputName(dir, f) ==
    LET base == f[Len(f)]
    IN <<base, CHOOSE n \in FreeSuffixes(dir, base) : \A m \in FreeSuffixes(dir, base) : n <= m>>

\* a file written in place, which a kill in mid-file leaves partial
WriteOutput_InPlace(dir, name, src) ==
    [dir EXCEPT ![name] = [st |-> IF pipe.cancel THEN "partial" ELSE "complete", src |-> src]]

\* the write of a document under a name: once, and as a whole
WriteOutput(dir, name, src) == [dir EXCEPT ![name] = [st |-> "complete", src |-> src]]

\* a ConversionResult: success, or failure with its reason, or cancelled
Result(o, reason, output) == [outcome |-> o, reason |-> reason, output |-> output]

\* temporary resources released on the normal exits of an extraction only
Release_UnlessInterrupted(temps, k) == IF pipe.cancel THEN temps ELSE temps \ {k}

\* the scoped release of the temporary resources of input k
Release(temps, k) == temps \ {k}

\* the converter is spawned with a job; the output directory may hold files
PipelineStart(fs, pre) ==
    /\ pipe.stage = "idle"
    /\ pipe' = [NoPipeline EXCEPT !.stage = "boundary", !.job = fs, !.pre = pre]
    /\ outDir' = [n \in OutNames |->
                     IF n \in pre THEN [st |-> "complete", src |-> -1] ELSE AbsentFile]
    /\ UNCHANGED outsidePipe

\* the next input is dispatched
Dispatch ==
    /\ pipe.stage = "boundary"
    /\ ~pipe.cancel
    /\ pipe.idx < Len(pipe.job)
    /\ pipe' = [pipe EXCEPT !.stage = "extract", !.idx = @ + 1]
    /\ UNCHANGED <<outDir, outsidePipe>>

\* the extraction of a PDF rasterizes its pages into temporary files and buffers
Rasterize ==
    /\ pipe.stage = "extract"
    /\ pipe.idx \notin pipe.temps
    /\ pipe' = [pipe EXCEPT !.temps = @ \cup {pipe.idx}, !.acquired = @ + 1]
    /\ UNCHANGED <<outDir, outsidePipe>>

\* detection, extraction, normalisation and assembly of the current input end
Extracted(ok) ==
    /\ pipe.stage = "extract"
    /\ pipe' = IF ok THEN [pipe EXCEPT !.stage = "write", !.temps = Release(@, pipe.idx)]
               ELSE [pipe EXCEPT !.stage = "boundary", !.temps = Release(@, pipe.idx),
                                 !.results = Append(@, Result("failure", "ExtractionError", <<>>))]
    /\ UNCHANGED <<outDir, outsidePipe>>

\* the document of the current input is written, or the write fails
WriteFile(ok) ==
    /\ pipe.stage = "write"
    /\ FreeSuffixes(outDir, pipe.job[pipe.idx][Len(pipe.job[pipe.idx])]) # {}
    /\ LET name == OutputName(outDir, pipe.job[pipe.idx])
       IN IF ok
          THEN /\ outDir' = WriteOutput(outDir, name, pipe.idx)
               /\ pipe' = [pipe EXCEPT !.stage = "boundary",
                                        !.results = Append(@, Result("success", "", name))]
          ELSE /\ outDir' = outDir
               /\ pipe' = [pipe EXCEPT !.stage = "boundary",
                                        !.results = Append(@, Result("failure", "WriteError", <<>>))]
    /\ UNCHANGED outsidePipe

\* converterProcess.kill('SIGTERM') of cancelConversion (requirements.txt:454)
\* reaches the converter, at any point of the job
Sigterm ==
    /\ pipe.stage \in {"boundary", "extract", "write"}
    /\ ~pipe.cancel
    /\ pipe' = [pipe EXCEPT !.cancel = TRUE]
    /\ UNCHANGED <<outDir, outsidePipe>>

\* the work on the current input is interrupted after a cancellation
Interrupted ==
    /\ pipe.cancel
    /\ pipe.stage \in {"extract", "write"}
    /\ pipe' = [pipe EXCEPT !.stage = "boundary", !.temps = Release(@, pipe.idx),
                             !.results = Append(@, Result("failure",
                                 IF pipe.stage = "write" THEN "InterruptedWrite"
                                 ELSE "InterruptedExtract", <<>>))]
    /\ UNCHANGED <<outDir, outsidePipe>>

\* the job ends at a file boundary: after its last input, or after a
\* cancellation with the inputs not yet started reported as cancelled
PipelineEnd ==
    /\ pipe.stage = "boundary"
    /\ pipe.cancel \/ pipe.idx = Len(pipe.job)
    /\ pipe' = [pipe EXCEPT !.stage = "ended",
                  !.results = @ \o [k \in 1..(Len(pipe.job) - pipe.idx) |->
                                       Result("cancelled", "", <<>>)]]
    /\ UNCHANGED <<outDir, outsidePipe>>

\* ------------------------------------------------------------ specification
InitApp ==
    /\ files = <<>>
    /\ convertedFiles = <<>>
    /\ isConverting = FALSE
    /\ toMain = <<>>
    /\ toRenderer = <<>>
    /\ converterProcess = 0
    /\ procs = [j \in Jobs |-> NoProc]
    /\ nJobs = 0
    /\ rJob = 0
    /\ nEdits = 0
    /\ rFiles = <<>>
    /\ outcome = [j \in Jobs |-> "none"]
    /\ sent = [j \in Jobs |-> NoneSent]
    /\ lastCancel = FALSE
    /\ mainWindow = TRUE
    /\ quitting = FALSE
    /\ nullUse = FALSE

InitShell ==
    /\ lifecycle = "running"
    /\ backendProcess = 0
    /\ backends = <<>>
    /\ inv = [i \in 1..MaxInvocations |-> NoInvocation]

InitConvert ==
    /\ queue = [f \in ConvertFiles |-> "none"]
    /\ conv = [i \in 1..MaxInvocations |-> NoConvert]

InitStdout ==
    /\ wire = <<>>
    /\ written = <<>>
    /\ fileConverted = <<>>

InitBridge ==
    /\ ipcOn = [ch \in BridgeChannels |-> <<>>]
    /\ listenerRegistry = [ch \in BridgeChannels |-> NoListeners]
    /\ nextWrapper = 0
    /\ outbox = <<>>
    /\ ret = NoReturn
    /\ nCalls = 0
    /\ nOn = [ch \in BridgeChannels |-> [cb \in Callbacks |-> 0]]
    /\ nUnsub = [ch \in BridgeChannels |-> [cb \in Callbacks |-> 0]]
    /\ nMsgs = 0
    /\ lastCalls = <<>>
    /\ wcount = [id \in 1..MaxWrappers |-> 0]
    /\ removeAll = [n |-> 0, ch |-> "none"]

InitPipeline ==
    /\ pipe = NoPipeline
    /\ outDir = [n \in OutNames |-> AbsentFile]

InitBoot == instance = NoInstance

InitChannels ==
    /\ mainIpc = [n |-> 0, last |-> "none"]
    /\ down = "none"

Init ==
    /\ InitApp /\ InitShell /\ InitConvert /\ InitStdout /\ InitBridge /\ InitPipeline
    /\ InitBoot /\ InitChannels

Next ==
    \/ \E filePaths \in Selections : addFiles(filePaths)
    \/ \E index \in 1..MaxFiles : removeFile(index)
    \/ clearFiles
    \/ startConversion
    \/ requestCancel
    \/ RendererReceive
    \/ MainReceive
    \/ \E j \in Jobs : \E ok \in BOOLEAN : OnStdoutData(j, ok)
    \/ \E j \in Jobs : \E byCode \in CloseCodes : OnClose(j, byCode)
    \/ \E j \in Jobs : OnError(j)

Spec == Init /\ [][Next]_vars

\* the same application with its scheduling: Electron delivers every IPC
\* message, and a child process that was spawned ends ('close') or reports
\* that it could not start ('error', then 'close')
Fairness ==
    /\ WF_vars(MainReceive)
    /\ WF_vars(RendererReceive)
    /\ \A j \in Jobs : WF_vars(\E byCode \in CloseCodes : OnClose(j, byCode))
    /\ \A j \in Jobs : WF_vars(OnError(j))

SpecLive == Init /\ [][Next]_vars /\ Fairness

\* the application when its window is closed or the app quits at any time: the
\* renderer acts only while the window exists
NextWindow ==
    \/ mainWindow /\ addFiles(<<<<"x", "a">>>>)
    \/ mainWindow /\ startConversion
    \/ mainWindow /\ requestCancel
    \/ mainWindow /\ RendererReceive
    \/ MainReceive
    \/ \E j \in Jobs : \E ok \in BOOLEAN : OnStdoutData(j, ok)
    \/ \E j \in Jobs : \E byCode \in CloseCodes : OnClose(j, byCode)
    \/ \E j \in Jobs : OnError(j)
    \/ WindowClosed
    \/ AppBeforeQuit

SpecWindow == Init /\ [][NextWindow]_vars

NextShell ==
    \/ \E i \in 1..MaxInvocations : \E fs \in ShellInputs : HandleConvertFiles(i, fs)
    \/ \E i \in 1..MaxInvocations : \E ok \in BOOLEAN : HealthCheck(i, ok)
    \/ \E i \in 1..MaxInvocations : \E answer \in {"ok", "notOk", "throws"} : PostConvert(i, answer)
    \/ \E b \in 1..MaxBackends : BackendExit(b)
    \/ BeforeQuit
    \/ Quit

SpecShell == Init /\ [][NextShell]_vars

\* the shell with its renderer as the caller of 'convert-files'
\* the shell from its start: a handler runs only once it is registered
NextBoot ==
    \/ \E gotLock \in BOOLEAN : bootstrap(gotLock)
    \/ WhenReady
    \/ instance.ipcHandlers
          /\ \E i \in 1..MaxInvocations : \E fs \in ShellInputs : HandleConvertFiles(i, fs)
    \/ \E i \in 1..MaxInvocations : \E ok \in BOOLEAN : HealthCheck(i, ok)
    \/ \E i \in 1..MaxInvocations : \E answer \in {"ok", "notOk", "throws"} : PostConvert(i, answer)
    \/ \E b \in 1..MaxBackends : BackendExit(b)
    \/ instance.lifecycleHandlers /\ BeforeQuit
    \/ Quit

SpecBoot == Init /\ [][NextBoot]_vars

NextConvert ==
    \/ \E i \in 1..MaxCalls : \E fs \in ConvertInputs : convert(i, fs)
    \/ \E i \in 1..MaxCalls : InvokeConvertFiles(i)
    \/ \E i \in 1..MaxInvocations : \E ok \in BOOLEAN : HealthCheck(i, ok)
    \/ \E i \in 1..MaxInvocations : \E answer \in {"ok", "notOk", "throws"} : PostConvert(i, answer)
    \/ \E i \in 1..MaxCalls :
          \E res \in UNION {BackendAnswers(fs) : fs \in ConvertInputs} :
             ConvertSettled(i, res)
    \/ \E b \in 1..MaxBackends : BackendExit(b)
    \/ BeforeQuit
    \/ Quit

SpecConvert == Init /\ [][NextConvert]_vars

\* the converter's stdout and its 'data' handler, at the level of text
MaxChunk == 14

NextStdout ==
    \/ ConverterWrites
    \/ \E n \in 1..MaxChunk : StdoutChunk(n)

SpecStdout == Init /\ [][NextStdout]_vars

\* the context bridge's calls to the main process under any use by the
\* renderer's code; they share no state with the listeners
NextBridgeCalls ==
    \/ \E ch \in BridgeChannels : apiSend(ch)
    \/ \E ch \in BridgeChannels : \E failed \in BOOLEAN : apiInvoke(ch, failed)

SpecBridgeCalls == Init /\ [][NextBridgeCalls]_vars

\* the renderer calls the bridge with any channel, the main process takes what
\* the bridge hands over and sends its events
NextChannels ==
    \/ \E ch \in AllChannels : apiSend(ch)
    \/ \E ch \in AllChannels : \E failed \in BOOLEAN : apiInvoke(ch, failed)
    \/ \E fn \in DOMAIN WindowControls : windowControls(fn)
    \/ \E fn \in DOMAIN FileOpsSend \cup DOMAIN FileOpsInvoke : fileOps(fn)
    \/ \E fn \in DOMAIN AppInfo : appInfo(fn)
    \/ IpcMainDispatch
    \/ \E ch \in MainSends : MainEvent(ch)

SpecChannels == Init /\ [][NextChannels]_vars

\* the context bridge's listeners under any use by the renderer's code
NextBridge ==
    \/ \E ch \in BridgeChannels : \E cb \in Callbacks : apiOn(ch, cb)
    \/ \E ch \in BridgeChannels : \E cb \in Callbacks : Unsubscribe(ch, cb)
    \/ \E ch \in BridgeChannels : \E cb \in Callbacks : apiOnce(ch, cb)
    \/ \E ch \in BridgeChannels : \E cb \in Callbacks : apiOff(ch, cb)
    \/ \E ch \in BridgeChannels : apiRemoveAllListeners(ch)
    \/ \E ch \in BridgeChannels : \E threw \in SUBSET Callbacks : Deliver(ch, threw)

SpecBridge == Init /\ [][NextBridge]_vars

\* the conversion pipeline under a cancellation at any time
NextPipeline ==
    \/ \E fs \in PipelineJobs : \E pre \in PreExisting : PipelineStart(fs, pre)
    \/ Dispatch
    \/ Rasterize
    \/ \E ok \in BOOLEAN : Extracted(ok)
    \/ \E ok \in BOOLEAN : WriteFile(ok)
    \/ Sigterm
    \/ Interrupted
    \/ PipelineEnd

SpecPipeline == Init /\ [][NextPipeline]_vars

\* ------------------------------------------------------------ observations
Range(q) == {q[i] : i \in DOMAIN q}

PathsOf(fs) == [i \in DOMAIN fs |-> fs[i].path]

\* events of request j on channel ch that the renderer's listener has handled:
\* those sent less those still in the queue
HandledOn(j, ch) ==
    sent[j][ch] - Cardinality({i \in DOMAIN toRenderer :
                                  toRenderer[i].job = j /\ toRenderer[i].ch = ch})

TerminalsSent(j) ==
    sent[j]["conversion-complete"] + sent[j]["conversion-error"]
        + sent[j]["conversion-cancelled"]

TerminalsHandled(j) ==
    HandledOn(j, "conversion-complete") + HandledOn(j, "conversion-error")
        + HandledOn(j, "conversion-cancelled")

\* the entries of the file list that belong to the renderer's current job
JobEntries == {i \in DOMAIN files : files[i].path \in Range(rFiles)}

\* a step of the renderer's current job that keeps the entries of the file list
SameJobStep == rJob' = rJob /\ PathsOf(files') = PathsOf(files)

\* a converter process was spawned for request j and no terminal event of it
\* has been sent yet
InFlight(j) == procs[j].st \in {"running", "failed"} /\ TerminalsSent(j) = 0

\* the step in which the main process handles 'cancel-conversion'
CancelStep ==
    /\ toMain # <<>>
    /\ Head(toMain).type = "cancel-conversion"
    /\ toMain' = Tail(toMain)

\* the step in which the renderer's listener handles the next event
DeliveryStep == toRenderer # <<>> /\ toRenderer' = Tail(toRenderer)

\* the events a step of the main process sends
NewlySent == {toRenderer'[k] : k \in (Len(toRenderer) + 1)..Len(toRenderer')}

\* ------------------------------------------------------------------ claims

\* C1: once the renderer has handled a terminal event of its job, every file of
\* the job has a final status (completed, error or cancelled) and no later step
\* of that job gives a file a different status.
C1_FinalStatusOnce ==
    [][(rJob > 0 /\ TerminalsHandled(rJob) > 0) =>
          /\ \A i \in JobEntries : files[i].status \in FinalStatuses
          /\ SameJobStep => \A i \in JobEntries : files'[i].status = files[i].status]_vars

\* C2: once 'conversion-cancelled' of the job has been handled, every file of the
\* job is cancelled or completed, and stays what it is in every later state of
\* the job.
C2_CancelledStaysCancelled ==
    [][(rJob > 0 /\ HandledOn(rJob, "conversion-cancelled") > 0) =>
          /\ \A i \in JobEntries : files[i].status \in {"cancelled", "completed"}
          /\ SameJobStep => \A i \in JobEntries : files'[i].status = files[i].status]_vars

\* C3: for every request for which a converter process was spawned, the main
\* process sends at most one terminal event, and exactly one once the process
\* has closed.
C3_OneTerminalEvent ==
    \A j \in Jobs :
        outcome[j] \in {"spawned", "spawnFails"} =>
            /\ TerminalsSent(j) <= 1
            /\ procs[j].st = "closed" => TerminalsSent(j) = 1

\* C4: no two converter processes spawned by convertFiles run at the same time.
C4_OneConverterAtATime ==
    Cardinality({j \in Jobs : procs[j].st = "running"}) <= 1

\* C5: cancelConversion returns true exactly when a job is in flight; it then
\* signals that job's process and announces 'conversion-cancelled'; otherwise
\* it returns false, sends nothing and changes no state.
C5_CancelReturnsInFlight ==
    [][CancelStep =>
          IF \E j \in Jobs : InFlight(j)
          THEN /\ lastCancel'
               /\ \E j \in Jobs :
                     /\ InFlight(j)
                     /\ procs'[j].signalled
                     /\ sent'[j]["conversion-cancelled"] = sent[j]["conversion-cancelled"] + 1
          ELSE /\ ~lastCancel'
               /\ UNCHANGED <<toRenderer, converterProcess, procs, sent>>]_vars

\* C6: no 'file-converted' or 'conversion-progress' event of a job is delivered
\* to the renderer after the job's 'conversion-cancelled' was delivered.
C6_NoDataAfterCancelled ==
    [][(DeliveryStep /\ Head(toRenderer).ch \in DataChannels) =>
          HandledOn(Head(toRenderer).job, "conversion-cancelled") = 0]_vars

\* C7: every 'conversion-progress' or 'file-converted' event of a job is sent
\* after the job's 'conversion-started' and before the job's terminal event.
C7_EventsInOrder ==
    [][\A e \in NewlySent :
          e.ch \in DataChannels =>
             /\ sent[e.job]["conversion-started"] > 0
             /\ TerminalsSent(e.job) = 0]_vars

\* C8: a 'convert-files' invocation without input paths fails with an error and
\* starts nothing: no backend is spawned and no request reaches the backend.
C8_EmptyRequestIsAnError ==
    \A i \in DOMAIN inv :
        (inv[i].pc = "done" /\ Len(inv[i].files) = 0) =>
            /\ inv[i].result \in Rejections
            /\ ~inv[i].spawned
            /\ ~inv[i].posted
            /\ inv[i].attempts = 0

\* C9: when the output directory cannot be created, the renderer is sent a
\* 'conversion-error' for the request, no 'conversion-started' is sent and no
\* converter process is spawned.
C9_MkdirFailureIsReported ==
    \A j \in Jobs :
        outcome[j] = "mkdirThrows" =>
            /\ sent[j]["conversion-error"] > 0
            /\ sent[j]["conversion-started"] = 0
            /\ procs[j].st = "none"

\* C10: once 'conversion-complete' of the job has been handled, a file is shown
\* completed only if a 'file-converted' event for it was received during the job.
C10_CompletedOnlyIfConverted ==
    (rJob > 0 /\ HandledOn(rJob, "conversion-complete") > 0) =>
        \A i \in DOMAIN files :
            files[i].status = "completed" => files[i].path \in Range(convertedFiles)

\* C11: when the backend has answered a call of convert with one result per
\* file, a file whose result is a success is shown complete and a file whose
\* result is a failure is shown as an error: the failure of one file does not
\* change what is shown for the other files of the batch.
C11_FileFailureStaysLocal ==
    [][\A i \in DOMAIN conv :
          (conv[i].pc = "invoked" /\ conv'[i].pc = "settled" /\ inv[i].result = "results") =>
             \A k \in DOMAIN conv'[i].results :
                queue'[conv'[i].results[k].path] =
                    IF conv'[i].results[k].ok THEN "complete" ELSE "error"]_vars

\* C12: once the 'data' handler has read everything the converter wrote, the
\* 'file-converted' events sent are exactly one per 'Converted:' line, in order,
\* each with the input and the output of its line, however the text was split
\* into chunks.
C12_OneEventPerConvertedLine ==
    wire = <<>> => fileConverted = written

\* the terminal states the renderer has put request j in: one per kind of
\* terminal event of j that its listeners have handled
TerminalStates(j) == {c \in TerminalChannels : HandledOn(j, c) > 0}

\* C13: a job ends in at most one terminal state and never leaves it for
\* another, and it is completed or cancelled only after it was running, i.e.
\* after its 'conversion-started' was handled.
C13_JobStateMachine ==
    \A j \in Jobs :
        /\ Cardinality(TerminalStates(j)) <= 1
        /\ (TerminalStates(j) \cap {"conversion-complete", "conversion-cancelled"} # {}) =>
               HandledOn(j, "conversion-started") > 0

\* C14: a call of api.send hands its message to the main process and returns
\* true exactly when the channel is in SEND_CHANNELS, and returns false and hands
\* over nothing otherwise; a call of api.invoke makes the IPC call exactly when
\* the channel is in INVOKE_CHANNELS, and is rejected with 'Invalid channel'
\* and hands over nothing otherwise.
C14_SendInvokeWhitelisted ==
    [][nCalls' = nCalls + 1 =>
          /\ ret'.op = "send" =>
                IF ret'.ch \in SEND_CHANNELS
                THEN ret'.value = "true"
                     /\ outbox' = Append(outbox, [via |-> "send", ch |-> ret'.ch])
                ELSE ret'.value = "false" /\ outbox' = outbox
          /\ ret'.op = "invoke" =>
                IF ret'.ch \in INVOKE_CHANNELS
                THEN ret'.value # "Invalid channel"
                     /\ outbox' = Append(outbox, [via |-> "invoke", ch |-> ret'.ch])
                ELSE ret'.value = "Invalid channel" /\ outbox' = outbox]_vars

\* a message was sent, a send on a channel outside the sets was refused, and
\* an invoke of a send channel was rejected
C14_Witness ==
    /\ ret = [op |-> "invoke", ch |-> "convert-files", value |-> "Invalid channel"]
    /\ outbox = <<[via |-> "send", ch |-> "convert-files"]>>
    /\ nCalls = 3

\* C15: ipcRenderer has listeners of the bridge only on channels of
\* RECEIVE_CHANNELS, so a callback is invoked only for messages on those
\* channels, and every invocation passes the message's arguments without the
\* IPC event object.
C15_ListenersWhitelisted ==
    /\ \A ch \in BridgeChannels \ RECEIVE_CHANNELS : ipcOn[ch] = <<>>
    /\ \A k \in DOMAIN lastCalls :
          /\ lastCalls[k].ch \in RECEIVE_CHANNELS
          /\ lastCalls[k].args = <<"data">>
          /\ "event" \notin Range(lastCalls[k].args)

\* one message invoked a callback registered with api.on and one registered
\* with api.once
C15_Witness ==
    /\ Len(lastCalls) = 2
    /\ nMsgs = 1
    /\ \E ch \in RECEIVE_CHANNELS \cap BridgeChannels :
          Len(ipcOn[ch]) = 1 /\ ~ipcOn[ch][1].once /\ wcount[ipcOn[ch][1].id] = 1

\* C16: when the unsubscribe function has been called once for every
\* api.on(channel, callback) made so far, no wrapper that api.on created for the
\* callback is registered with ipcRenderer on the channel, so the callback is
\* not invoked through api.on for later messages.
C16_UnsubscribedMeansRemoved ==
    \A ch \in BridgeChannels : \A cb \in Callbacks :
        (nOn[ch][cb] > 0 /\ nUnsub[ch][cb] = nOn[ch][cb]) =>
            ~\E k \in DOMAIN ipcOn[ch] : ipcOn[ch][k].cb = cb /\ ~ipcOn[ch][k].once

\* a message on channel ch is delivered in this step while ch has listeners
DeliveredOn(ch) ==
    nMsgs' = nMsgs + 1 /\ lastCalls' # <<>> /\ lastCalls'[1].ch = ch

\* C17: a wrapper of api.once that is registered has never run; the next
\* message on its channel runs it once and removes it from the channel, whether
\* its callback throws or not, so it runs for at most one message.
C17_OnceRunsOnce ==
    [][\A ch \in BridgeChannels : \A k \in DOMAIN ipcOn[ch] :
          ipcOn[ch][k].once =>
             /\ wcount[ipcOn[ch][k].id] = 0
             /\ DeliveredOn(ch) =>
                   /\ wcount'[ipcOn[ch][k].id] = 1
                   /\ \A m \in DOMAIN ipcOn'[ch] : ipcOn'[ch][m].id # ipcOn[ch][k].id]_vars

\* the only wrapper ever created was one of api.once; it ran for the first
\* message and the second message invoked nothing
C17_Witness ==
    /\ nextWrapper = 1
    /\ \A ch \in BridgeChannels : \A cb \in Callbacks : nOn[ch][cb] = 0
    /\ wcount[1] = 1
    /\ nMsgs = 2
    /\ lastCalls = <<>>

\* C18: when the 'convert-files' handler takes up a request with input paths
\* while no backend process is running, it spawns the backend before it polls
\* the health endpoint.
C18_SpawnsWhenNoBackendRuns ==
    [][\A i \in DOMAIN inv :
          (/\ inv[i].pc = "idle"
           /\ inv'[i].pc = "health"
           /\ \A b \in DOMAIN backends : backends[b].st # "running") =>
              /\ inv'[i].spawned
              /\ backendProcess' \in DOMAIN backends'
              /\ backends'[backendProcess'].st = "running"]_vars


EarlierOutputs(k, b) ==
    {j \in 1..(k - 1) : pipe.results[j].outcome = "success" /\ pipe.results[j].output[1] = b}

C22_ConversionEnds ==
    isConverting ~> ~isConverting


\* C23: in the request/response shell, once convert(files) has settled, every
\* file passed to it is 'complete' or 'error' in the status queue; none is
\* still 'pending', whatever result entries the backend returned.
C23_NonePendingAfterSettled ==
    \A i \in 1..MaxCalls :
        conv[i].pc = "settled" =>
            \A k \in DOMAIN conv[i].files : queue[conv[i].files[k]] \in {"complete", "error"}


\* C24: the shell sends POST /convert only after a /health request of the same
\* invocation returned an OK response; when the backend never becomes healthy
\* or /convert answers with a non-OK status, the invocation fails with an
\* error and returns no result object.
C24_PostOnlyWhenHealthy ==
    \A i \in 1..MaxInvocations :
        /\ inv[i].pc = "post" \/ inv[i].posted => inv[i].healthy
        /\ inv[i].pc = "done" /\ inv[i].files # <<>> =>
              /\ ~inv[i].healthy => inv[i].result = "notReady" /\ ~inv[i].posted
              /\ inv[i].answer = "notOk" => inv[i].result = "badStatus"
              /\ inv[i].result = "results" <=> inv[i].healthy /\ inv[i].answer = "ok"

\* one invocation gave up after its last health check, another was answered
\* with a non-OK status
C24_Witness ==
    /\ inv[1].pc = "done" /\ inv[1].attempts = maxAttempts /\ inv[1].result = "notReady"
    /\ inv[2].pc = "done" /\ inv[2].healthy /\ inv[2].result = "badStatus"


\* C25: ensureBackendReady always terminates: it returns at the first OK health
\* response and otherwise throws after exactly 25 failed health checks, and
\* never polls beyond that. Every round of the loop either returns or counts
\* one more failed check, and the count of a polling invocation is below 25.
C25_PollingTerminates ==
    /\ [](\A i \in 1..MaxInvocations :
            /\ inv[i].pc = "health" => inv[i].attempts < maxAttempts /\ ~inv[i].healthy
            /\ inv[i].result = "notReady" <=> inv[i].attempts = maxAttempts
            /\ inv[i].healthy => inv[i].attempts < maxAttempts)
    /\ [][\A i \in 1..MaxInvocations :
            inv[i].pc = "health" /\ inv'[i] # inv[i] =>
                \/ inv'[i].pc = "post" /\ inv'[i].healthy /\ inv'[i].attempts = inv[i].attempts
                \/ /\ inv'[i].attempts = inv[i].attempts + 1
                   /\ inv'[i].pc = IF inv'[i].attempts = maxAttempts THEN "done" ELSE "health"]_vars

\* an invocation whose 25 health checks all failed
C25_Witness ==
    inv[1].pc = "done" /\ inv[1].attempts = maxAttempts /\ inv[1].result = "notReady"


\* C26: however many 'convert-files' requests are in flight, no backend
\* process is spawned while a previously spawned one is still running:
\* concurrent requests share the backend that was started.
C26_OneBackendAtATime ==
    [][Len(backends') > Len(backends) =>
          \A b \in DOMAIN backends : backends[b].st # "running"]_vars

\* C27: once the app has begun quitting ('before-quit' -> stopBackend), every
\* backend process the shell started has been sent SIGTERM and backendProcess
\* is null, and no backend process is left running after the quit.
C27_NoBackendAfterQuit ==
    lifecycle # "running" =>
        /\ backendProcess = 0
        /\ \A b \in DOMAIN backends : backends[b].st = "running" => backends[b].killed


C29_MarksOnlyItsEntry ==
    [][(DeliveryStep /\ Head(toRenderer).ch = "file-converted") =>
          \A i \in DOMAIN files :
             files'[i].status = IF files[i].path = Head(toRenderer).input
                                THEN "completed" ELSE files[i].status]_vars

\* C30: startConversion sends no 'convert-files' message and leaves
\* isConverting, convertedFiles and the file statuses unchanged when the file
\* list is empty or a conversion is in progress; otherwise it sends exactly one
\* message, which carries the paths of AppState.files in list order.
C30_StartConversionFrame ==
    [][/\ Len(files) = 0 \/ isConverting =>
             /\ rJob' = rJob
             /\ ~\E k \in (Len(toMain) + 1)..Len(toMain') : toMain'[k].type = "convert-files"
             \* but for the listeners and the edits of the list, nothing changes
             /\ toRenderer' = toRenderer /\ nEdits' = nEdits =>
                   /\ isConverting' = isConverting
                   /\ convertedFiles' = convertedFiles
                   /\ files' = files
       /\ rJob' # rJob =>
             /\ Len(files) > 0 /\ ~isConverting
             /\ toMain' = Append(toMain, [type |-> "convert-files", files |-> PathsOf(files)])
             /\ isConverting']_vars

\* a conversion of two files was requested and its message is on its way
C30_Witness ==
    /\ rJob = 1
    /\ isConverting
    /\ toMain = <<[type |-> "convert-files", files |-> <<<<"x", "a">>, <<"x", "b">>>>]>>


\* C31: api.removeAllListeners(channel) on a receive channel removes every
\* listener of the channel, the once-listeners too, together with the channel's
\* registry entry, leaves the listeners of the other channels as they are, and
\* does nothing for a channel outside RECEIVE_CHANNELS.
C31_RemoveAllListenersFrame ==
    [][removeAll' # removeAll =>
          LET ch == removeAll'.ch
          IN /\ \A c \in BridgeChannels \ {ch} :
                   ipcOn'[c] = ipcOn[c] /\ listenerRegistry'[c] = listenerRegistry[c]
             /\ IF ch \in RECEIVE_CHANNELS
                THEN ipcOn'[ch] = <<>> /\ listenerRegistry'[ch] = NoListeners
                ELSE ipcOn'[ch] = ipcOn[ch] /\ listenerRegistry'[ch] = listenerRegistry[ch]]_vars

\* the listeners of 'conversion-complete' were removed and the listener of
\* 'conversion-error', registered before, is still there
C31_Witness ==
    /\ removeAll = [n |-> 1, ch |-> "conversion-complete"]
    /\ nOn["conversion-complete"]["f"] = 1 /\ nUnsub["conversion-complete"]["f"] = 0
    /\ ipcOn["conversion-complete"] = <<>>
    /\ ~listenerRegistry["conversion-complete"].has
    /\ Len(ipcOn["conversion-error"]) = 1
    /\ ipcOn["conversion-error"][1].id = 1


\* C32: whenever no IPC message is in transit between the two processes,
\* AppState.isConverting is true if and only if the main process has a
\* converter process in flight; the renderer never believes it is idle while a
\* converter it started is still running.
C32_RendererAgreesWithMain ==
    (toMain = <<>> /\ toRenderer = <<>>) =>
        /\ isConverting <=> converterProcess # 0
        /\ ~isConverting => \A j \in Jobs : procs[j].st # "running"


\* C33: in every reachable state each converter process that is still running,
\* and was not sent SIGTERM by a cancellation, is the one converterProcess
\* refers to: the 'close' or 'error' handler of an earlier process never clears
\* the reference to a later one, so a running converter can always be cancelled.
C33_RunningIsReferenced ==
    \A j \in Jobs :
        (procs[j].st = "running" /\ ~procs[j].signalled) => converterProcess = j

\* C34: when the 'closed' handler or the 'before-quit' handler has run, every
\* converter process that is still running has been sent the kill signal
C34_KilledAtCloseOrQuit ==
    [][((mainWindow /\ ~mainWindow') \/ (~quitting /\ quitting'))
          => \A j \in Jobs : procs'[j].st = "running" => procs'[j].signalled]_vars

\* C35: no handler of the main process calls mainWindow.webContents.send while
\* mainWindow is null, also not for a converter that writes or exits after the
\* window was closed
C35_WindowNeverUsedAfterClosed == ~nullUse

\* C36: an instance that did not obtain the single-instance lock has quit with
\* no window, no IPC handler, no lifecycle handler, no backend and no
\* conversion started
C36_NoLockNoApp ==
    (instance.pc # "start" /\ ~instance.gotLock) =>
        /\ instance.pc = "quit"
        /\ lifecycle = "quit"
        /\ ~instance.window
        /\ ~instance.ipcHandlers
        /\ ~instance.lifecycleHandlers
        /\ backendProcess = 0
        /\ backends = <<>>
        /\ \A i \in 1..MaxInvocations : inv[i] = NoInvocation

C36_Witness == instance.pc = "quit" /\ ~instance.gotLock /\ lifecycle = "quit"

====
